---- MODULE Spec2Model ----
(***************************************************************************)
(* The BigClaw dashboard script (docs/js/dashboard.js) as a state machine. *)
(*                                                                         *)
(* The page is one event loop.  A task (script load, DOMContentLoaded, a   *)
(* timer tick, a network completion, an image event) runs to completion,   *)
(* then the promise reactions it queued (microtasks) run until the queue   *)
(* is empty, and only then the next task starts.  The containers are the   *)
(* innerHTML / textContent of the five elements the script looks up by id; *)
(* innerHTML is modelled as the sequence of the nodes it holds.            *)
(***************************************************************************)
EXTENDS Integers, Sequences, FiniteSets, TLC

VARIABLES
    now,         \* wall clock read by new Date(): [day |-> 0..6, hour |-> 0..23]
    pc,          \* "loading": script not run yet; "parsed": script ran; "ready": DOMContentLoaded ran
    scheduler,   \* "Idle" or "Armed" (setInterval registered)
    ticks,       \* number of interval callbacks that have run
    container,   \* element id -> content (sequence of nodes)
    inflight,    \* requests issued and not yet settled: [sec, tick]
    microtasks,  \* queue of pending promise reactions
    answering    \* the sections whose resource the network answers; the others hang

vars == <<now, pc, scheduler, ticks, container, inflight, microtasks, answering>>

----------------------------------------------------------------------------
(* Bounds of the model *)

\* the interval callback runs at most this many times
MaxTicks == 1

\* the largest bullishPercent the sentiment specification serves
MaxPercent == 102

----------------------------------------------------------------------------
(* Sections and their elements *)

Sections == {"portfolio", "sentiment", "chart", "news", "timestamp"}

FetchSections == {"portfolio", "sentiment", "news", "timestamp"}

ElementIds == {"portfolio-grid", "sentiment-data", "performance-chart", "news-articles", "lastUpdate"}

\* loadSentimentData looking up the portfolio's element
ContainerOfCopied(sec) ==
    CASE sec = "portfolio" -> "portfolio-grid"
      [] sec = "sentiment" -> "portfolio-grid"
      [] sec = "chart"     -> "performance-chart"
      [] sec = "news"      -> "news-articles"
      [] sec = "timestamp" -> "lastUpdate"

\* the id each function passes to document.getElementById
ContainerOf(sec) ==
    CASE sec = "portfolio" -> "portfolio-grid"
      [] sec = "sentiment" -> "sentiment-data"
      [] sec = "chart"     -> "performance-chart"
      [] sec = "news"      -> "news-articles"
      [] sec = "timestamp" -> "lastUpdate"

\* what the DOMContentLoaded handler calls
BootstrapSections == {"portfolio", "sentiment", "chart", "news", "timestamp"}

\* what the setInterval callback calls
TickSectionsWithChart == {"portfolio", "sentiment", "chart", "news", "timestamp"}

TickSections == {"portfolio", "sentiment", "news", "timestamp"}

----------------------------------------------------------------------------
(* Content *)

\* the markup the page ships with, before any script wrote the element
InitialContent == << [tag |-> "initial"] >>

Paragraph(text) == << [tag |-> "p.loading", text |-> text] >>

TextNode(text) == << [tag |-> "text", text |-> text] >>

PortfolioFallback == Paragraph("Portfolio data not yet available. Check back after the morning report.")

SentimentFallback == Paragraph("Sentiment data not yet available.")

NewsFallback == Paragraph("News feed not yet available.")

NewsEmpty == Paragraph("No news available yet.")

TimestampFallback == TextNode("Data not yet available")

TimestampUnknown == TextNode("Unknown")

ChartImage == << [tag |-> "img", src |-> "data/performance_chart.png"] >>

ChartFallback == Paragraph("Performance chart will be generated after the first trading day.")

\* the literal fallback message of a section
Fallback(sec) ==
    CASE sec = "portfolio" -> PortfolioFallback
      [] sec = "sentiment" -> SentimentFallback
      [] sec = "news"      -> NewsFallback
      [] sec = "timestamp" -> TimestampFallback

----------------------------------------------------------------------------
(* JSON values.  An object is a record; a missing field is a field that is *)
(* not in its DOMAIN; null is JsonNull, and reading a property of null     *)
(* throws a TypeError.                                                     *)

JsonNull == [jsonNull |-> TRUE]

IsNull(v) == "jsonNull" \in DOMAIN v

Has(obj, field) == field \in DOMAIN obj

----------------------------------------------------------------------------
(* Dates.  A date string is modelled by what new Date(str) makes of it:    *)
(* either a valid date, with the parts toLocaleDateString('en-US') prints, *)
(* or an invalid one, with the comma-separated segments of the raw string. *)

ValidDate(mon, day, year) == [valid |-> TRUE, mon |-> mon, day |-> day, year |-> year]

InvalidDate(segments) == [valid |-> FALSE, segments |-> segments]

\* startDate.toLocaleDateString('en-US', {month: 'short', day: 'numeric', year: 'numeric'})
LongDate(d) == IF d.valid THEN <<d.mon, d.day, d.year>> ELSE <<"Invalid Date">>

\* formatPublishedDate(dateStr)
formatPublishedDate(d) ==
    IF ~d.valid
    THEN SubSeq(d.segments, 1, IF Len(d.segments) < 2 THEN Len(d.segments) ELSE 2)
    ELSE <<d.mon, d.day>>

----------------------------------------------------------------------------
(* The outcome of running a callback: the innerHTML it leaves behind, and  *)
(* whether it threw (which rejects the promise the callback belongs to).   *)

Outcome(html, threw) == [html |-> html, threw |-> threw]

(* Portfolio: the callback of the second .then of loadPortfolioData *)

\* the entry makes the forEach callback throw before it appends anything
PortfolioThrows(p) ==
    \/ IsNull(p)
    \/ ~Has(p, "totalValue")
    \/ ~Has(p, "totalReturn")

changeClass(totalReturn) == IF totalReturn >= 0 THEN "positive" ELSE "negative"

changeSign(totalReturn) == IF totalReturn >= 0 THEN "+" ELSE ""

holdingsHtml(p) ==
    IF Has(p, "holdings") /\ Len(p.holdings) > 0
    THEN [tag |-> "ul.holdings-list", items |-> p.holdings]
    ELSE [tag |-> "p.no-holdings", items |-> <<>>]

\* the card one portfolio adds (totalReturn is in hundredths of a percent)
PortfolioCard(p) ==
    [tag         |-> "portfolio-card",
     name        |-> p.name,
     style       |-> p.style,
     started     |-> IF Has(p, "createdAt") THEN LongDate(p.createdAt) ELSE <<>>,
     value       |-> p.totalValue,
     changeClass |-> changeClass(p.totalReturn),
     changeSign  |-> changeSign(p.totalReturn),
     change      |-> p.totalReturn,
     holdings    |-> holdingsHtml(p)]

RECURSIVE PortfolioForEach(_, _)
PortfolioForEach(items, html) ==
    IF items = <<>> THEN Outcome(html, FALSE)
    ELSE IF PortfolioThrows(Head(items)) THEN Outcome(html, TRUE)
    ELSE PortfolioForEach(Tail(items), Append(html, PortfolioCard(Head(items))))

\* a callback that forgets container.innerHTML = '' and appends to what is there
PortfolioThenAppending(data, old) ==
    IF IsNull(data) \/ ~Has(data, "portfolios")
    THEN Outcome(old, TRUE)
    ELSE PortfolioForEach(data.portfolios, old)

PortfolioThen(data, old) ==
    IF IsNull(data) \/ ~Has(data, "portfolios")
    THEN Outcome(<<>>, TRUE)
    ELSE PortfolioForEach(data.portfolios, <<>>)

(* Sentiment: the callback of the second .then of loadSentimentData *)

classifySentimentStrict(p) ==
    IF p > 60 THEN [class |-> "bullish", label |-> "Bullish"]
    ELSE IF p < 40 THEN [class |-> "bearish", label |-> "Bearish"]
    ELSE [class |-> "neutral", label |-> "Neutral"]

\* sentimentClass and label as lines 89-98 set them
classifySentiment(p) ==
    IF p >= 60 THEN [class |-> "bullish", label |-> "Bullish"]
    ELSE IF p <= 40 THEN [class |-> "bearish", label |-> "Bearish"]
    ELSE [class |-> "neutral", label |-> "Neutral"]

SentimentCard(item) ==
    [tag    |-> "sentiment-card",
     ticker |-> item.ticker,
     score  |-> item.bullishPercent,
     class  |-> classifySentiment(item.bullishPercent).class,
     label  |-> classifySentiment(item.bullishPercent).label,
     source |-> "via X/Twitter"]

RECURSIVE SentimentForEach(_, _)
SentimentForEach(items, html) ==
    IF items = <<>> THEN Outcome(html, FALSE)
    ELSE IF IsNull(Head(items)) THEN Outcome(html, TRUE)
    ELSE SentimentForEach(Tail(items), Append(html, SentimentCard(Head(items))))

SentimentThen(data, old) ==
    IF IsNull(data) \/ ~Has(data, "tickers")
    THEN Outcome(<<>>, TRUE)
    ELSE SentimentForEach(data.tickers, <<>>)

(* News: the callback of the second .then of loadNewsData *)

NewsItem(article) ==
    [tag     |-> "news-item",
     title   |-> article.title,
     link    |-> article.link,
     summary |-> IF Has(article, "summary") THEN article.summary ELSE "",
     source  |-> article.source,
     date    |-> IF Has(article, "published") THEN formatPublishedDate(article.published) ELSE <<>>]

RECURSIVE NewsForEach(_, _)
NewsForEach(items, html) ==
    IF items = <<>> THEN Outcome(html, FALSE)
    ELSE IF IsNull(Head(items)) THEN Outcome(html, TRUE)
    ELSE NewsForEach(Tail(items), Append(html, NewsItem(Head(items))))

NewsThen(data, old) ==
    IF IsNull(data) THEN Outcome(<<>>, TRUE)
    ELSE IF ~Has(data, "articles") \/ Len(data.articles) = 0 THEN Outcome(NewsEmpty, FALSE)
    ELSE NewsForEach(data.articles, <<>>)

(* Timestamp: the callback of the second .then of updateTimestamp *)

\* one message for every case without a timestamp
TimestampThenOneMessage(data, old) ==
    IF IsNull(data) THEN Outcome(old, TRUE)
    ELSE IF Has(data, "lastUpdate") /\ data.lastUpdate # ""
         THEN Outcome(TextNode(data.lastUpdate), FALSE)
         ELSE Outcome(TimestampFallback, FALSE)

\* data.lastUpdate || 'Unknown': an absent field and the empty string are both falsy
TimestampThen(data, old) ==
    IF IsNull(data) THEN Outcome(old, TRUE)
    ELSE IF Has(data, "lastUpdate") /\ data.lastUpdate # ""
         THEN Outcome(TextNode(data.lastUpdate), FALSE)
         ELSE Outcome(TimestampUnknown, FALSE)

\* callbacks that leave the container alone once it shows the fallback
ThenUnlessGivenUp(sec, data, old) ==
    IF old = Fallback(sec) THEN Outcome(old, FALSE)
    ELSE CASE sec = "portfolio" -> PortfolioThen(data, old)
           [] sec = "sentiment" -> SentimentThen(data, old)
           [] sec = "news"      -> NewsThen(data, old)
           [] sec = "timestamp" -> TimestampThen(data, old)

\* the render callback of a section, run on parsed data with the element holding old
Then(sec, data, old) ==
    CASE sec = "portfolio" -> PortfolioThen(data, old)
      [] sec = "sentiment" -> SentimentThen(data, old)
      [] sec = "news"      -> NewsThen(data, old)
      [] sec = "timestamp" -> TimestampThen(data, old)

----------------------------------------------------------------------------
(* What the server may answer.  The files are written by a generator that  *)
(* is not part of the page.  portfolios.json is a fresh edition for every  *)
(* round of requests, so that a rendering tells which round it came from.  *)

Alpha(tick) == [name |-> "Alpha", style |-> "Growth", totalValue |-> 10000 + 250 * tick,
                totalReturn |-> 525, holdings |-> << [ticker |-> "AAPL", shares |-> 10] >>]

Beta == [name |-> "Beta", style |-> "Value", totalValue |-> 5000, totalReturn |-> -120,
         createdAt |-> ValidDate("Jan", "15", "2025"), holdings |-> <<>>]

Gamma == [name |-> "Gamma", style |-> "Income", totalValue |-> 7500, totalReturn |-> 0]

NoValue == [name |-> "Delta", style |-> "Momentum", totalReturn |-> 310]

ErrorBody == [error |-> "not found"]

PortfolioPayloads(tick) ==
    { [portfolios |-> <<Alpha(tick), Beta, Gamma>>],
      [portfolios |-> <<Beta, NoValue, Alpha(tick)>>] }

SentimentPayloads ==
    { [tickers |-> << [ticker |-> "AAPL", bullishPercent |-> 60],
                      [ticker |-> "TSLA", bullishPercent |-> 40],
                      [ticker |-> "MSFT", bullishPercent |-> 50] >>],
      [tickers |-> << [ticker |-> "NVDA", bullishPercent |-> 75], JsonNull >>] }

Article1 == [title |-> "Fed holds rates", link |-> "https://example.com/fed", source |-> "Reuters",
             summary |-> "Rates unchanged.", published |-> ValidDate("Jun", "2", "2025")]

Article2 == [title |-> "Chip rally", link |-> "https://example.com/chips", source |-> "CNBC",
             published |-> InvalidDate(<<"Mon", "02 Jun 2025 at ten", "GMT">>)]

NewsPayloads ==
    { [articles |-> <<Article1, Article2>>],
      [articles |-> <<>>],
      [articles |-> <<Article2, JsonNull>>],
      ErrorBody }

MetadataPayloads ==
    { [lastUpdate |-> "2025-06-02 09:30 ET"],
      [lastUpdate |-> ""],
      [generator |-> "bigclaw"] }

\* the parsed bodies a request of section sec issued in round tick may get
Payloads(sec, tick) ==
    CASE sec = "portfolio" -> PortfolioPayloads(tick)
      [] sec = "sentiment" -> SentimentPayloads
      [] sec = "news"      -> NewsPayloads
      [] sec = "timestamp" -> MetadataPayloads

----------------------------------------------------------------------------
(* The program *)

\* round 0 is the DOMContentLoaded handler, round n the n-th interval callback
Request(sec, tick) == [sec |-> sec, tick |-> tick]

\* a queued promise reaction
Reaction(kind, sec) == [kind |-> kind, sec |-> sec]

\* a .catch that adds the message with += instead of assigning it
CatchAppending(sec, old) == old \o Fallback(sec)

\* what the .catch callback of a section's chain assigns to its container
Catch(sec, old) == Fallback(sec)

Days == 0..6

Hours == 0..23

Time(day, hour) == [day |-> day, hour |-> hour]

AllTimes == [day : Days, hour : Hours]

\* the clock readings the full specification loads the page at: Saturday 10:00
\* and Monday 10:00
ClockSamples == {Time(6, 10), Time(1, 10)}

\* the gate with the closing hour included
shouldAutoRefreshInclusive(t) == t.day >= 1 /\ t.day <= 5 /\ t.hour >= 9 /\ t.hour <= 17

\* shouldAutoRefresh(), with t the reading of new Date()
shouldAutoRefresh(t) == t.day >= 1 /\ t.day <= 5 /\ t.hour >= 9 /\ t.hour < 17

\* a callback that looks at the clock again instead of having been registered once
TimerActiveByClock == shouldAutoRefresh(now)

\* the interval timer exists: setInterval was called and nothing ever clears it
TimerActive == scheduler = "Armed"

\* a round that aborts the section's earlier requests before it fetches again
StartCyclesAborting(secs, tick) ==
    {r \in inflight : r.sec \notin secs} \cup {Request(sec, tick) : sec \in secs}

\* the requests in flight after the functions of secs were called in round tick
StartCycles(secs, tick) == inflight \cup {Request(sec, tick) : sec \in secs}

TypeOK ==
    /\ now \in AllTimes
    /\ pc \in {"loading", "parsed", "ready"}
    /\ scheduler \in {"Idle", "Armed"}
    /\ ticks \in 0..MaxTicks
    /\ DOMAIN container = ElementIds
    /\ inflight \subseteq [sec : Sections, tick : 0..MaxTicks]
    /\ Len(microtasks) <= 1
    /\ answering \subseteq Sections

\* the page before the script ran, loaded at a clock reading in T on a network
\* that answers the sections of one of the sets in A
Loading(T, A) ==
    /\ now \in T
    /\ answering \in A
    /\ pc = "loading"
    /\ scheduler = "Idle"
    /\ ticks = 0
    /\ container = [e \in ElementIds |-> InitialContent]
    /\ inflight = {}
    /\ microtasks = <<>>

Init == Loading(ClockSamples, {Sections})

\* the script's top level: addEventListener, then the gate and setInterval
ScriptLoad ==
    /\ pc = "loading"
    /\ pc' = "parsed"
    /\ scheduler' = IF shouldAutoRefresh(now) THEN "Armed" ELSE "Idle"
    /\ UNCHANGED <<now, ticks, container, inflight, microtasks, answering>>

\* the DOMContentLoaded listener
DOMContentLoaded ==
    /\ pc = "parsed"
    /\ pc' = "ready"
    /\ inflight' = StartCycles(BootstrapSections, 0)
    /\ UNCHANGED <<now, scheduler, ticks, container, microtasks, answering>>

\* the setInterval callback; the first one is due five minutes after the script
\* ran, when the document has long been parsed
Tick ==
    /\ TimerActive
    /\ pc = "ready"
    /\ microtasks = <<>>
    /\ ticks < MaxTicks
    /\ ticks' = ticks + 1
    /\ inflight' = StartCycles(TickSections, ticks + 1)
    /\ UNCHANGED <<now, pc, scheduler, container, microtasks, answering>>

\* the request fails before there is data (fetch rejects, or res.json() rejects):
\* the rejection passes both .then and the .catch callback runs
FetchFailsFor(req) ==
    /\ microtasks = <<>>
    /\ req \in inflight
    /\ req.sec \in FetchSections \cap answering
    /\ inflight' = inflight \ {req}
    /\ container' = [container EXCEPT ![ContainerOf(req.sec)] = Catch(req.sec, @)]
    /\ UNCHANGED <<now, pc, scheduler, ticks, microtasks, answering>>

FetchFails == \E req \in inflight : FetchFailsFor(req)

\* res.json() resolves with data: the data => {...} callback runs; when it throws,
\* the .catch callback is the next microtask
FetchResolvesWith(req, data) ==
    /\ microtasks = <<>>
    /\ req \in inflight
    /\ req.sec \in FetchSections \cap answering
    /\ LET el  == ContainerOf(req.sec)
           out == Then(req.sec, data, container[el])
       IN /\ inflight' = inflight \ {req}
          /\ container' = [container EXCEPT ![el] = out.html]
          /\ microtasks' = IF out.threw THEN << Reaction("catch", req.sec) >> ELSE <<>>
    /\ UNCHANGED <<now, pc, scheduler, ticks, answering>>

FetchResolves ==
    \E req \in inflight :
        /\ req.sec \in FetchSections
        /\ \E data \in Payloads(req.sec, req.tick) : FetchResolvesWith(req, data)

\* sentiment.json with one ticker whose bullishPercent is anything in range
SentimentResolves ==
    \E req \in inflight :
        /\ req.sec = "sentiment"
        /\ \E p \in -2..MaxPercent :
             FetchResolvesWith(req, [tickers |-> << [ticker |-> "AAPL", bullishPercent |-> p] >>])

\* the .catch callback, queued because the data => {...} callback threw
RunCatch ==
    /\ microtasks # <<>>
    /\ LET el == ContainerOf(Head(microtasks).sec)
       IN container' = [container EXCEPT ![el] = Catch(Head(microtasks).sec, @)]
    /\ microtasks' = Tail(microtasks)
    /\ UNCHANGED <<now, pc, scheduler, ticks, inflight, answering>>

\* img.onload of loadPerformanceChart
ImgOnload ==
    /\ microtasks = <<>>
    /\ \E req \in inflight :
         /\ req.sec = "chart"
         /\ req.sec \in answering
         /\ inflight' = inflight \ {req}
         /\ container' = [container EXCEPT ![ContainerOf("chart")] = ChartImage]
    /\ UNCHANGED <<now, pc, scheduler, ticks, microtasks, answering>>

\* img.onerror of loadPerformanceChart
ImgOnerror ==
    /\ microtasks = <<>>
    /\ \E req \in inflight :
         /\ req.sec = "chart"
         /\ req.sec \in answering
         /\ inflight' = inflight \ {req}
         /\ container' = [container EXCEPT ![ContainerOf("chart")] = ChartFallback]
    /\ UNCHANGED <<now, pc, scheduler, ticks, microtasks, answering>>

\* time passes between two tasks: the wall clock reads some other time
PassTime ==
    /\ microtasks = <<>>
    /\ \E t \in AllTimes : t # now /\ now' = t
    /\ UNCHANGED <<pc, scheduler, ticks, container, inflight, microtasks, answering>>

Next ==
    \/ ScriptLoad
    \/ DOMContentLoaded
    \/ Tick
    \/ FetchFails
    \/ FetchResolves
    \/ RunCatch
    \/ ImgOnload
    \/ ImgOnerror

\* the whole page; the clock is read once, by ScriptLoad
Spec == Init /\ [][Next]_vars

\* the page on a network where a single section's resource answers
SpecOne == Loading(ClockSamples, {{sec} : sec \in Sections}) /\ [][Next]_vars

NextGate ==
    \/ Next
    \/ PassTime

\* the same page under a running clock, loaded at any hour of any day
SpecGate == Loading(AllTimes, {{sec} : sec \in Sections}) /\ [][NextGate]_vars

NextSentiment ==
    \/ ScriptLoad
    \/ DOMContentLoaded
    \/ Tick
    \/ SentimentResolves

\* the sentiment cycle over a whole range of scores
SpecSentiment == Loading(ClockSamples, {{"sentiment"}}) /\ [][NextSentiment]_vars

----------------------------------------------------------------------------
(* What the specification expects, stated without the callbacks' loops *)

\* no promise reaction is pending: the state between two event-loop tasks
Quiescent == microtasks = <<>>

\* the element the specification gives each section
OwnElement(sec) ==
    CASE sec = "portfolio" -> "portfolio-grid"
      [] sec = "sentiment" -> "sentiment-data"
      [] sec = "chart"     -> "performance-chart"
      [] sec = "news"      -> "news-articles"
      [] sec = "timestamp" -> "lastUpdate"

\* the requests that leave the network in this step
Settling == inflight \ inflight'

\* the payload can be rendered entry by entry without an exception
WellFormed(sec, d) ==
    CASE sec = "portfolio" ->
            /\ Has(d, "portfolios")
            /\ \A i \in DOMAIN d.portfolios :
                 /\ ~IsNull(d.portfolios[i])
                 /\ Has(d.portfolios[i], "totalValue")
                 /\ Has(d.portfolios[i], "totalReturn")
      [] sec = "sentiment" ->
            /\ Has(d, "tickers")
            /\ \A i \in DOMAIN d.tickers : ~IsNull(d.tickers[i])
      [] sec = "news" ->
            /\ ~IsNull(d)
            /\ Has(d, "articles") => \A i \in DOMAIN d.articles : ~IsNull(d.articles[i])
      [] sec = "timestamp" -> ~IsNull(d)

\* the complete, in-order rendering of a well-formed payload
Rendering(sec, d) ==
    CASE sec = "portfolio" -> [i \in DOMAIN d.portfolios |-> PortfolioCard(d.portfolios[i])]
      [] sec = "sentiment" -> [i \in DOMAIN d.tickers |-> SentimentCard(d.tickers[i])]
      [] sec = "news" ->
            IF ~Has(d, "articles") \/ d.articles = <<>>
            THEN Paragraph("No news available yet.")
            ELSE [i \in DOMAIN d.articles |-> NewsItem(d.articles[i])]
      [] sec = "timestamp" ->
            IF Has(d, "lastUpdate") /\ d.lastUpdate # ""
            THEN TextNode(d.lastUpdate)
            ELSE TextNode("Unknown")

\* every complete rendering a section can have received up to now
Renderings(sec) ==
    { Rendering(sec, d) :
        d \in { x \in UNION { Payloads(sec, t) : t \in 0..ticks } : WellFormed(sec, x) } }

GoodPortfolios(tick) == [portfolios |-> <<Alpha(tick), Beta, Gamma>>]

----------------------------------------------------------------------------
(* C1 *)

\* C1: every cycle writes only its own container.  A step changes no element
\* but the one of the section whose request settles or whose reaction runs; a
\* rejected sentiment fetch leaves exactly the sentiment fallback in
\* sentiment-data and portfolio-grid as it was; and the bootstrap and every
\* tick start their cycles whatever the containers hold.
C1_OwnContainerOnly ==
    [][ /\ \A e \in ElementIds :
             container'[e] # container[e] =>
                 \/ \E req \in Settling : OwnElement(req.sec) = e
                 \/ microtasks # <<>> /\ OwnElement(Head(microtasks).sec) = e
        /\ \A req \in Settling :
             (req.sec = "sentiment" /\ FetchFailsFor(req)) =>
                 /\ container'["sentiment-data"] = Paragraph("Sentiment data not yet available.")
                 /\ container'["portfolio-grid"] = container["portfolio-grid"]
        /\ pc = "parsed" /\ pc' = "ready" =>
                 \A sec \in Sections : Request(sec, 0) \in inflight'
        /\ ticks' = ticks + 1 =>
                 \A sec \in FetchSections : Request(sec, ticks') \in inflight'
      ]_vars

\* the sentiment cycle failed and the portfolio cycle rendered its data
C1_Witness ==
    /\ Quiescent
    /\ container["sentiment-data"] = Paragraph("Sentiment data not yet available.")
    /\ container["portfolio-grid"] = Rendering("portfolio", GoodPortfolios(0))
    /\ container["news-articles"] = InitialContent

----------------------------------------------------------------------------
(* C2 *)

\* C2: in the portfolio, sentiment and news cycles a failure at any stage ends
\* with the section's fallback message as the whole content of its container.
\* A request that fails before there is data leaves the fallback at once; a
\* payload whose rendering throws leaves the .catch reaction pending; and the
\* .catch reaction replaces whatever was appended by the fallback alone.
C2_FailureShowsFallback ==
    [][ /\ \A req \in Settling :
             req.sec \in {"portfolio", "sentiment", "news"} =>
                 /\ FetchFailsFor(req) =>
                        /\ container'[OwnElement(req.sec)] = Fallback(req.sec)
                        /\ microtasks' = <<>>
                 /\ \A d \in Payloads(req.sec, req.tick) :
                        (FetchResolvesWith(req, d) /\ ~WellFormed(req.sec, d)) =>
                            microtasks' = << Reaction("catch", req.sec) >>
        /\ microtasks # <<>> =>
             /\ container'[OwnElement(Head(microtasks).sec)] = Fallback(Head(microtasks).sec)
             /\ microtasks' = <<>>
      ]_vars

\* the portfolio callback threw at its second entry: the container was cleared,
\* one card was appended, and the .catch reaction is about to run
C2_Witness ==
    /\ microtasks = << Reaction("catch", "portfolio") >>
    /\ container["portfolio-grid"] = << PortfolioCard(Beta) >>
    /\ ticks = 1

----------------------------------------------------------------------------
(* C3 *)

\* C3: the gate is evaluated once, when the script runs.  After that the
\* scheduler never changes state, whatever the clock does, and while it is
\* Idle no tick has fired and no request of a refresh round exists.
C3_GateOnce ==
    [][ /\ pc # "loading" => scheduler' = scheduler
        /\ scheduler' = "Idle" => (ticks' = 0 /\ \A r \in inflight' : r.tick = 0)
      ]_vars

\* loaded outside the window, the page is still Idle at Monday 10:00
C3_Witness ==
    /\ pc = "ready"
    /\ scheduler = "Idle"
    /\ now = Time(1, 10)
    /\ ticks = 0

----------------------------------------------------------------------------
(* C4 *)

\* C4: the step that runs the script arms the scheduler exactly when the clock
\* then reads a day in 1..5 and an hour h with 9 <= h < 17.
C4_ArmedIffMarketHours ==
    [][ (pc = "loading" /\ pc' # "loading") =>
            (scheduler' = "Armed" <=> (now.day \in 1..5 /\ 9 <= now.hour /\ now.hour < 17))
      ]_vars

\* the script has just run on a Friday at 16:00 and armed the timer
C4_Witness ==
    /\ pc = "parsed"
    /\ scheduler = "Armed"
    /\ now = Time(5, 16)

----------------------------------------------------------------------------
(* C5 *)

\* C5: a tick starts exactly one portfolio, sentiment, news and timestamp
\* cycle and no chart probe; the only chart probe is the bootstrap's, and once
\* it has had its outcome no step writes performance-chart again.
C5_TicksSkipChart ==
    [][ /\ ticks' = ticks + 1 =>
             inflight' \ inflight =
                 {Request(sec, ticks') : sec \in {"portfolio", "sentiment", "news", "timestamp"}}
        /\ \A r \in inflight' : r.sec = "chart" => r.tick = 0
        /\ (pc = "ready" /\ Request("chart", 0) \notin inflight) =>
             container'["performance-chart"] = container["performance-chart"]
      ]_vars

\* the image loaded, a tick fired, and one of the tick's cycles has rendered
C5_Witness ==
    /\ Quiescent
    /\ ticks >= 1
    /\ container["performance-chart"] = ChartImage
    /\ container["portfolio-grid"] = Rendering("portfolio", GoodPortfolios(1))

----------------------------------------------------------------------------
(* C6 *)

\* C6: a tick cancels and replaces nothing that is in flight, only one request
\* settles at a time, and a response that renders is what the container holds
\* afterwards, whichever round it belongs to and whatever has settled before.
C6_LastWriteWins ==
    [][ /\ ticks' = ticks + 1 => inflight \subseteq inflight'
        /\ Cardinality(Settling) <= 1
        /\ \A req \in Settling :
             req.sec \in FetchSections =>
                 \A d \in Payloads(req.sec, req.tick) :
                     (FetchResolvesWith(req, d) /\ WellFormed(req.sec, d)) =>
                         container'[OwnElement(req.sec)] = Rendering(req.sec, d)
      ]_vars

\* the tick's portfolio request has settled, and the container shows the
\* edition the bootstrap's slower request was answered with
C6_Witness ==
    /\ Quiescent
    /\ ticks >= 1
    /\ \A r \in inflight : r.sec # "portfolio"
    /\ container["portfolio-grid"] = Rendering("portfolio", GoodPortfolios(0))

----------------------------------------------------------------------------
(* C7 *)

\* C7 as stated: a failed fetch or parse shows "Data not yet available",
\* metadata without a lastUpdate field shows "Unknown", and metadata with a
\* lastUpdate field shows exactly that string.
C7_Original ==
    [][ \A req \in Settling :
          req.sec = "timestamp" =>
              /\ FetchFailsFor(req) => container'["lastUpdate"] = TextNode("Data not yet available")
              /\ \A d \in MetadataPayloads :
                     FetchResolvesWith(req, d) =>
                         /\ ~Has(d, "lastUpdate") => container'["lastUpdate"] = TextNode("Unknown")
                         /\ Has(d, "lastUpdate") => container'["lastUpdate"] = TextNode(d.lastUpdate)
      ]_vars

\* C7 amended: a failed fetch or parse shows "Data not yet available"; a
\* metadata object without a lastUpdate field, or with an empty one, shows
\* "Unknown"; a non-empty lastUpdate is shown exactly; and the two fallback
\* strings are different.
C7_TimestampFallbacks ==
    [][ /\ TextNode("Unknown") # TextNode("Data not yet available")
        /\ \A req \in Settling :
             req.sec = "timestamp" =>
                 /\ FetchFailsFor(req) =>
                        container'["lastUpdate"] = TextNode("Data not yet available")
                 /\ \A d \in MetadataPayloads :
                        FetchResolvesWith(req, d) =>
                            /\ microtasks' = <<>>
                            /\ (~Has(d, "lastUpdate") \/ d.lastUpdate = "") =>
                                   container'["lastUpdate"] = TextNode("Unknown")
                            /\ (Has(d, "lastUpdate") /\ d.lastUpdate # "") =>
                                   container'["lastUpdate"] = TextNode(d.lastUpdate)
      ]_vars

\* metadata.json was fetched and parsed and the element shows "Unknown"
C7_Witness ==
    /\ Quiescent
    /\ container["lastUpdate"] = TextNode("Unknown")
    /\ Request("timestamp", 0) \notin inflight
    /\ ticks = 0

----------------------------------------------------------------------------
(* C8 *)

\* C8: every sentiment card on the page is classified by its score p alone:
\* bullish/Bullish when p >= 60, bearish/Bearish when p <= 40, neutral/Neutral
\* when 40 < p < 60.
C8_SentimentPartition ==
    \A i \in DOMAIN container["sentiment-data"] :
        LET card == container["sentiment-data"][i] IN
        card.tag = "sentiment-card" =>
            /\ card.score >= 60 => (card.class = "bullish" /\ card.label = "Bullish")
            /\ card.score <= 40 => (card.class = "bearish" /\ card.label = "Bearish")
            /\ (40 < card.score /\ card.score < 60) =>
                   (card.class = "neutral" /\ card.label = "Neutral")

\* a card with the boundary score 60 is on the page, rendered by a tick's cycle
C8_Witness ==
    /\ ticks >= 1
    /\ Request("sentiment", 1) \notin inflight
    /\ \E i \in DOMAIN container["sentiment-data"] :
         LET card == container["sentiment-data"][i] IN
         card.tag = "sentiment-card" /\ card.score = 60 /\ card.class = "bullish"

----------------------------------------------------------------------------
(* C9 *)

\* C9 as stated: when a container shows the fallback and a later tick's cycle
\* fetches and parses, the cycle ends there with something else than the
\* fallback; and a later failure replaces rendered data with the fallback.
C9_Original ==
    [][ \A req \in Settling :
          (req.sec \in FetchSections /\ req.tick >= 1) =>
              /\ \A d \in Payloads(req.sec, req.tick) :
                     (FetchResolvesWith(req, d)
                        /\ container[OwnElement(req.sec)] = Fallback(req.sec)) =>
                         /\ microtasks' = <<>>
                         /\ container'[OwnElement(req.sec)] # Fallback(req.sec)
              /\ (FetchFailsFor(req) /\ container[OwnElement(req.sec)] \in Renderings(req.sec)) =>
                     container'[OwnElement(req.sec)] = Fallback(req.sec)
      ]_vars

\* C9 amended: every tick starts a cycle for each refreshed section whatever
\* its container shows; when a container shows the fallback and a later tick's
\* cycle fetches, parses and renders without an exception, the container holds
\* that rendering; a payload whose rendering throws leaves the .catch pending;
\* and a later failure replaces rendered data with the fallback.
C9_FreshAttempt ==
    [][ /\ ticks' = ticks + 1 =>
             \A sec \in FetchSections :
                 Request(sec, ticks') \in inflight' /\ container'[OwnElement(sec)] = container[OwnElement(sec)]
        /\ \A req \in Settling :
             (req.sec \in FetchSections /\ req.tick >= 1) =>
                 /\ \A d \in Payloads(req.sec, req.tick) :
                        (FetchResolvesWith(req, d)
                           /\ container[OwnElement(req.sec)] = Fallback(req.sec)) =>
                            IF WellFormed(req.sec, d)
                            THEN /\ microtasks' = <<>>
                                 /\ container'[OwnElement(req.sec)] = Rendering(req.sec, d)
                            ELSE microtasks' = << Reaction("catch", req.sec) >>
                 /\ (FetchFailsFor(req) /\ container[OwnElement(req.sec)] \in Renderings(req.sec)) =>
                        container'[OwnElement(req.sec)] = Fallback(req.sec)
      ]_vars

\* the bootstrap's sentiment cycle failed, the container shows the fallback,
\* and the tick's sentiment cycle is under way
C9_Witness ==
    /\ Quiescent
    /\ container["sentiment-data"] = Fallback("sentiment")
    /\ Request("sentiment", 0) \notin inflight
    /\ Request("sentiment", 1) \in inflight

----------------------------------------------------------------------------
(* C10 *)

\* what a container may hold between two tasks
Whole(sec) ==
    IF sec = "chart"
    THEN {InitialContent, ChartImage, ChartFallback}
    ELSE {InitialContent, Fallback(sec)} \cup Renderings(sec)

\* C10: between two tasks every container holds its initial content, the
\* complete rendering of one payload (for news that includes the
\* empty-collection message), or its fallback message.
C10_AtomicRendering ==
    Quiescent => \A sec \in Sections : container[OwnElement(sec)] \in Whole(sec)

\* the portfolio requests of the bootstrap and of the tick have both settled,
\* the container holds the complete rendering of the tick's edition, and the
\* news container holds the empty-collection message
C10_Witness ==
    /\ Quiescent
    /\ ticks >= 1
    /\ \A r \in inflight : r.sec # "portfolio"
    /\ container["portfolio-grid"] = Rendering("portfolio", GoodPortfolios(1))
    /\ container["news-articles"] = Paragraph("No news available yet.")

====
